---- MODULE Spec2Model ----
(***************************************************************************)
(* Model of the quantitative portfolio engine of the robo-advisor backend  *)
(* (backend/app/services/portfolio_manager.py) and of the router that      *)
(* calls it (backend/app/api/routers/portfolio.py).                        *)
(*                                                                         *)
(* Numbers.  The code works on Python floats.  The model uses exact        *)
(* integers in fixed units:                                                *)
(*   - rebalancing weights and thresholds: percent points (0.05 = 5);      *)
(*   - optimizer weights: basis points (1.0 = 10000), the product of a     *)
(*     tier share in percent and a regional split in percent;              *)
(*   - prices and losses: dollars.                                         *)
(*                                                                         *)
(* External collaborators.  yfinance (price history) and scipy's           *)
(* minimize are not code of the repository: a fetch either delivers data   *)
(* or raises, and a solve returns (success, x), where x satisfies the      *)
(* constraints when success is reported and is any iterate otherwise.      *)
(* Both are inputs drawn by the actions.                                   *)
(***************************************************************************)
EXTENDS Integers, Sequences, FiniteSets, TLC

VARIABLES
    asset_classes,  \* PortfolioManager.asset_classes: the ETF of each class
    pc,             \* "idle" | "frontier_loop" | "done"
    op,             \* the operation that was called
    args,           \* its arguments and the data its collaborators delivered
    locals,         \* the local variables of a loop that is under way
    result          \* [kind |-> "ok", value |-> ...] or [kind |-> "error", ...]

vars == <<asset_classes, pc, op, args, locals, result>>

(***************************************************************************)
(* Bounds of the model.                                                    *)
(***************************************************************************)
MaxWeight == 6      \* rebalancing weights range over 0..MaxWeight percent
MaxLots == 2        \* longest list of lots given to the tax-loss scan
MaxPoints == 3      \* largest n_points given to the frontier sweep
MaxDays == 3        \* most daily return rows in a price history
MaxScale == 3       \* largest factor a value series is rescaled by

(***************************************************************************)
(* Helpers for Python values.                                              *)
(***************************************************************************)
Abs(x) == IF x < 0 THEN -x ELSE x

\* dict.get(key, default)
Get(d, k, default) == IF k \in DOMAIN d THEN d[k] ELSE default

\* every dict with keys among K and values among V
Dicts(K, V) == UNION {[S -> V] : S \in SUBSET K}

\* every list of at most n elements of S
Lists(S, n) == UNION {[1..k -> S] : k \in 0..n}

Ok(v) == [kind |-> "ok", value |-> v]
Raised(e, d) == [kind |-> "error", error |-> e, detail |-> d]

(***************************************************************************)
(* PortfolioManager.__init__                                               *)
(***************************************************************************)
AssetClassNames ==
    <<"US_STOCKS", "INTL_STOCKS", "US_BONDS", "INTL_BONDS", "REAL_ESTATE", "COMMODITIES">>

InitialAssetClasses ==
    [c \in {AssetClassNames[k] : k \in 1..6} |->
        CASE c = "US_STOCKS" -> "VTI"
          [] c = "INTL_STOCKS" -> "VXUS"
          [] c = "US_BONDS" -> "BND"
          [] c = "INTL_BONDS" -> "BNDX"
          [] c = "REAL_ESTATE" -> "VNQ"
          [] c = "COMMODITIES" -> "GSG"]

(***************************************************************************)
(* PortfolioManager.rebalance_portfolio                                    *)
(***************************************************************************)
DefaultThreshold == 5

\* a trade is kept when the drift is at least the threshold
RebalanceInclusive(current_allocation, target_allocation, threshold) ==
    LET diff(s) == target_allocation[s] - Get(current_allocation, s, 0)
        kept == {s \in DOMAIN target_allocation : Abs(diff(s)) >= threshold}
    IN  [s \in kept |-> diff(s)]

rebalance_portfolio(current_allocation, target_allocation, threshold) ==
    LET diff(s) == target_allocation[s] - Get(current_allocation, s, 0)
        kept == {s \in DOMAIN target_allocation : Abs(diff(s)) > threshold}
    IN  [s \in kept |-> diff(s)]

(***************************************************************************)
(* PortfolioManager.calculate_tax_loss_harvest                             *)
(***************************************************************************)
MinimumLoss == 1000

\* current_prices.get(symbol): None for a symbol without a price
NoPrice == [some |-> FALSE, raised |-> FALSE, v |-> 0]

\* current_prices[symbol]: KeyError for a symbol without a price
PriceLookupRaising(current_prices, symbol) ==
    IF symbol \in DOMAIN current_prices
    THEN [some |-> TRUE, raised |-> FALSE, v |-> current_prices[symbol]]
    ELSE [some |-> FALSE, raised |-> TRUE, v |-> 0]

PriceLookup(current_prices, symbol) ==
    IF symbol \in DOMAIN current_prices
    THEN [some |-> TRUE, raised |-> FALSE, v |-> current_prices[symbol]]
    ELSE NoPrice

\* current_price is not None: a price of 0 counts as a price
PresentPrice(p) == p.some

\* Python truthiness of an optional number: None and 0 are false
Truthy(p) == p.some /\ p.v # 0

LotLoss(transaction, current_price) ==
    (current_price - transaction.price) * transaction.shares

\* the two conditions of the loop body
LotReported(transaction, current_prices) ==
    LET current_price == PriceLookup(current_prices, transaction.symbol)
    IN  /\ Truthy(current_price)
        /\ current_price.v < transaction.price
        /\ Abs(LotLoss(transaction, current_price.v)) > MinimumLoss

LotOpportunity(transaction, current_prices) ==
    [symbol |-> transaction.symbol,
     shares |-> transaction.shares,
     potential_loss |-> LotLoss(transaction, current_prices[transaction.symbol])]

RECURSIVE HarvestLoop(_, _)
HarvestLoop(transactions, current_prices) ==
    IF transactions = <<>>
    THEN <<>>
    ELSE LET rest == HarvestLoop(Tail(transactions), current_prices)
             transaction == Head(transactions)
         IN  IF LotReported(transaction, current_prices)
             THEN <<LotOpportunity(transaction, current_prices)>> \o rest
             ELSE rest

calculate_tax_loss_harvest(transactions, current_prices) ==
    IF \E k \in 1..Len(transactions) :
           PriceLookup(current_prices, transactions[k].symbol).raised
    THEN Raised("KeyError", "symbol")
    ELSE Ok(HarvestLoop(transactions, current_prices))

(***************************************************************************)
(* PortfolioManager.get_historical_data / calculate_portfolio_metrics, as  *)
(* far as the optimizer and the frontier read them: the fetch raises, or   *)
(* delivers the annualized mean return and the annualized volatility of    *)
(* each of the six symbols (in percent).  The six series of a history of   *)
(* the model move together (correlation 1), so the covariance matrix is    *)
(* cov[i][j] = volatility[i] * volatility[j] and the volatility of a       *)
(* long-only portfolio is the weighted sum of the volatilities.            *)
(***************************************************************************)
Symbols(classes) == [k \in 1..6 |-> classes[AssetClassNames[k]]]

MeanReturnChoices ==
    { <<8, 6, 3, 2, 7, 5>>, <<4, 4, 4, 4, 4, 4>>, <<-2, 9, 1, 3, 0, 6>> }

VolatilityChoices ==
    { <<15, 18, 5, 6, 17, 20>>, <<10, 10, 10, 10, 10, 10>> }

FetchedData ==
    {[fetch |-> "raises", mean_returns |-> <<>>, volatilities |-> <<>>]}
        \cup {[fetch |-> "ok", mean_returns |-> m, volatilities |-> v] :
                  m \in MeanReturnChoices, v \in VolatilityChoices}

RECURSIVE SumTo(_, _)
SumTo(f, n) == IF n = 0 THEN 0 ELSE f[n] + SumTo(f, n - 1)

\* np.sum(mean_returns * weights)
calculate_portfolio_return(weights, mean_returns) ==
    SumTo([k \in 1..Len(weights) |-> mean_returns[k] * weights[k]], Len(weights))

MinOf(f) == CHOOSE v \in {f[k] : k \in DOMAIN f} : \A k \in DOMAIN f : v <= f[k]
MaxOf(f) == CHOOSE v \in {f[k] : k \in DOMAIN f} : \A k \in DOMAIN f : v >= f[k]

(***************************************************************************)
(* PortfolioManager.optimize_portfolio                                     *)
(***************************************************************************)
One == 10000    \* the weight 1.0 in basis points

RiskTiers ==
    {"conservative", "moderate_conservative", "moderate", "moderate_aggressive",
     "aggressive"}

\* the shares of each tier, in percent
risk_params ==
    [t \in RiskTiers |->
        CASE t = "conservative" -> [stocks |-> 30, bonds |-> 60, alternatives |-> 10]
          [] t = "moderate_conservative" -> [stocks |-> 50, bonds |-> 40, alternatives |-> 10]
          [] t = "moderate" -> [stocks |-> 60, bonds |-> 30, alternatives |-> 10]
          [] t = "moderate_aggressive" -> [stocks |-> 70, bonds |-> 20, alternatives |-> 10]
          [] t = "aggressive" -> [stocks |-> 80, bonds |-> 10, alternatives |-> 10]]

\* the split of the stocks is applied to VTI and to VXUS alike
InitialWeightsUnsplit(params) ==
    << params.stocks * 60, params.stocks * 60, params.bonds * 70, params.bonds * 30,
       params.alternatives * 50, params.alternatives * 50 >>

\* percent times percent: basis points
initial_weights(params) ==
    << params.stocks * 60,          \* VTI
       params.stocks * 40,          \* VXUS
       params.bonds * 70,           \* BND
       params.bonds * 30,           \* BNDX
       params.alternatives * 50,    \* VNQ
       params.alternatives * 50 >>  \* GSG

\* the constraints and bounds handed to the solver
Feasible(x) ==
    /\ SumTo(x, Len(x)) = One
    /\ \A k \in 1..Len(x) : x[k] >= 0 /\ x[k] <= One

Vertex(i) == [k \in 1..6 |-> IF k = i THEN One ELSE 0]

\* iterates that break the equality constraint (all weight twice, none at all)
InfeasibleIterates == { [k \in 1..6 |-> IF k <= 2 THEN One ELSE 0], [k \in 1..6 |-> 0] }

\* what minimize(..., x0=x0, method='SLSQP') can return
SolverOutcomes(x0) ==
    LET feasible == {x0} \cup {Vertex(i) : i \in 1..6}
    IN  {[success |-> TRUE, x |-> x] : x \in feasible}
            \cup {[success |-> FALSE, x |-> x] : x \in feasible \cup InfeasibleIterates}

\* dict(zip(symbols, result.x)) and then allocation['metrics'] = {...}
AllocationOf(symbols, x, mean_returns) ==
    [key \in {symbols[k] : k \in 1..6} \cup {"metrics"} |->
        IF key = "metrics"
        THEN [kind |-> "metrics",
              expected_return |-> calculate_portfolio_return(x, mean_returns)]
        ELSE [kind |-> "weight",
              w |-> x[CHOOSE k \in 1..6 : symbols[k] = key]]]

optimize_portfolio(classes, risk_level, data, solve) ==
    IF data.fetch = "raises"
    THEN Raised("FetchError", "history")
    ELSE IF risk_level \notin DOMAIN risk_params
    THEN Raised("KeyError", risk_level)
    ELSE Ok(AllocationOf(Symbols(classes), solve.x, data.mean_returns))

(***************************************************************************)
(* PortfolioManager.calculate_efficient_frontier                           *)
(*                                                                         *)
(* A return is a fraction [num, den] of percent, den > 0: the k-th of n    *)
(* linearly spaced targets is min + k * (max - min) / (n - 1).             *)
(***************************************************************************)
RiskFreeRate == 2   \* the 0.02 of the Sharpe ratio, in percent

LessEq(a, b) == a.num * b.den <= b.num * a.den

RECURSIVE GCD(_, _)
GCD(a, b) == IF b = 0 THEN a ELSE GCD(b, a % b)

\* the fraction in lowest terms
Norm(f) ==
    LET g == GCD(Abs(f.num), f.den)
    IN  [num |-> f.num \div g, den |-> f.den \div g]

\* np.linspace(min_return, max_return, n_points)
linspace(min_return, max_return, n_points) ==
    IF n_points = 1
    THEN <<[num |-> min_return, den |-> 1]>>
    ELSE [k \in 1..n_points |->
             [num |-> min_return * (n_points - 1) + (k - 1) * (max_return - min_return),
              den |-> n_points - 1]]

\* The least volatility of a long-only, fully invested portfolio with the
\* target return.  With the volatility linear in the weights the solve is a
\* linear programme over {w >= 0, sum(w) = 1, w . mean_returns = target};
\* its optimum lies at a vertex, which holds one asset with the target return
\* or two assets with returns on either side of it.
MinVolatility(data, target_return) ==
    LET r == data.mean_returns
        v == data.volatilities
        t == target_return
        single == {i \in 1..6 : r[i] * t.den = t.num}
        pair == {p \in (1..6) \X (1..6) :
                    r[p[1]] * t.den < t.num /\ t.num < r[p[2]] * t.den}
        mix(i, j) ==
            [num |-> v[i] * t.den * (r[j] - r[i]) + (t.num - r[i] * t.den) * (v[j] - v[i]),
             den |-> t.den * (r[j] - r[i])]
        found == {[num |-> v[i], den |-> 1] : i \in single}
                     \cup {Norm(mix(p[1], p[2])) : p \in pair}
    IN  CHOOSE f \in found : \A g \in found : LessEq(f, g)

\* the solves of a target: failure, or success with the least volatility
SweepOutcomes(data, target_return) ==
    { [success |-> FALSE, fun |-> [num |-> 0, den |-> 1]],
      [success |-> TRUE, fun |-> MinVolatility(data, target_return)] }

\* sharpe_ratio = (target_return - 0.02) / result.fun
FrontierPoint(target_return, solve) ==
    [expected_return |-> target_return,
     volatility |-> solve.fun,
     sharpe_ratio |->
         [num |-> (target_return.num - RiskFreeRate * target_return.den) * solve.fun.den,
          den |-> target_return.den * solve.fun.num]]

\* a failed solve leaves the initial guess in place of the point
FrontierSubstituting(efficient_portfolios, target_return, solve) ==
    Append(efficient_portfolios,
           FrontierPoint(target_return,
                         IF solve.success
                         THEN solve
                         ELSE [success |-> TRUE, fun |-> [num |-> 0, den |-> 1]]))

\* the body of the loop after the solve: if result.success: append
FrontierCollect(efficient_portfolios, target_return, solve) ==
    IF solve.success
    THEN Append(efficient_portfolios, FrontierPoint(target_return, solve))
    ELSE efficient_portfolios

(***************************************************************************)
(* Price history for the replay (simulate, backtest, analyze).             *)
(*                                                                         *)
(* A history is what get_historical_data(symbols, period=f"{n}y") builds:  *)
(* a window of consecutive trading days, starting at day `first` of the    *)
(* trading calendar, with one row of daily returns (in percent, per        *)
(* symbol) for each day after the first; the first price row has no        *)
(* return.  `nodata` holds the symbols for which the provider delivered    *)
(* nothing, `years` how many years of history the provider holds.  A date  *)
(* is [m, d]; strftime("%Y-%m-%d") of two dates differs when they do.      *)
(***************************************************************************)
TradingCalendar ==
    << [m |-> 1, d |-> 31], [m |-> 2, d |-> 1], [m |-> 2, d |-> 2], [m |-> 2, d |-> 28],
       [m |-> 3, d |-> 2], [m |-> 3, d |-> 3], [m |-> 3, d |-> 31], [m |-> 4, d |-> 1],
       [m |-> 4, d |-> 2] >>

Benchmark == "SPY"

\* data.pct_change().dropna(): the rows in which every column has a return.
\* The column of a symbol without data is empty, so no row is complete.
ReturnRows(history, symbols) ==
    IF symbols \cap history.nodata # {}
    THEN <<>>
    ELSE [i \in 1..Len(history.rows) |->
             [date |-> TradingCalendar[history.first + i], ret |-> history.rows[i]]]

(***************************************************************************)
(* Amounts are fractions [num, den] of cents, in lowest terms.             *)
(***************************************************************************)
Cents(dollars) == [num |-> dollars * 100, den |-> 1]

\* the sum of two amounts
Plus(a, b) == Norm([num |-> a.num * b.den + b.num * a.den, den |-> a.den * b.den])

\* value * (1 + basis_points / 10000)
Grow(value, basis_points) ==
    LET factor == Norm([num |-> 10000 + basis_points, den |-> 10000])
    IN  Norm([num |-> value.num * factor.num, den |-> value.den * factor.den])

\* an amount put in before the return of row j, as it stands after row i
RECURSIVE Compounded(_, _, _, _)
Compounded(amount, basis_points, j, i) ==
    IF j > i
    THEN amount
    ELSE Compounded(Grow(amount, basis_points[j]), basis_points, j + 1, i)

\* round(value): the nearest whole unit of currency
RoundToUnits(value) ==
    100 * ((value.num + 50 * value.den) \div (100 * value.den))

\* round(value, 2): the nearest cent, a tie to the even cent
Round2(value) ==
    LET q == value.num \div value.den
        rest == value.num - q * value.den
    IN  IF 2 * rest < value.den THEN q
        ELSE IF 2 * rest > value.den THEN q + 1
        ELSE IF q % 2 = 0 THEN q ELSE q + 1

RECURSIVE SumOfKeys(_, _)
SumOfKeys(f, keys) ==
    IF keys = {}
    THEN 0
    ELSE LET k == CHOOSE x \in keys : TRUE
         IN  f[k] + SumOfKeys(f, keys \ {k})

\* (returns[symbols[:-1]] * pd.Series(allocation)).sum(axis=1), one day of it:
\* percent times percent, in basis points
PortfolioDayReturn(allocation, ret) ==
    SumOfKeys([s \in DOMAIN allocation |-> allocation[s] * ret[s]], DOMAIN allocation)

SimulationPoint(date, current_value, benchmark_value) ==
    [date |-> date,
     portfolioValue |-> Round2(current_value),
     benchmarkValue |-> Round2(benchmark_value)]

(***************************************************************************)
(* PortfolioManager.simulate_portfolio                                     *)
(***************************************************************************)
\* the contribution goes in on the first two days of a month
ContributeEarlyInMonth(value, date, monthly_contribution) ==
    IF date.d <= 2
    THEN [num |-> value.num + monthly_contribution * 100 * value.den, den |-> value.den]
    ELSE value

\* the contribution takes the place of the running value
ContributeAssigning(value, date, monthly_contribution) ==
    IF date.d = 1 THEN Cents(monthly_contribution) ELSE value

\* the contribution is taken out of the running value
ContributeSubtracting(value, date, monthly_contribution) ==
    IF date.d = 1
    THEN [num |-> value.num - monthly_contribution * 100 * value.den, den |-> value.den]
    ELSE value

\* if date.day == 1: value += monthly_contribution
Contribute(value, date, monthly_contribution) ==
    IF date.d = 1
    THEN [num |-> value.num + monthly_contribution * 100 * value.den, den |-> value.den]
    ELSE value

\* the day's return is applied first, the contribution added afterwards
RECURSIVE SimulateLoopGrowingFirst(_, _, _, _, _)
SimulateLoopGrowingFirst(returns, allocation, monthly_contribution, current_value, benchmark_value) ==
    IF returns = <<>>
    THEN <<>>
    ELSE LET row == Head(returns)
             current == Contribute(Grow(current_value,
                                        PortfolioDayReturn(allocation, row.ret)),
                                   row.date, monthly_contribution)
             benchmark == Contribute(Grow(benchmark_value, 100 * row.ret[Benchmark]),
                                     row.date, monthly_contribution)
         IN  <<SimulationPoint(row.date, current, benchmark)>>
                 \o SimulateLoopGrowingFirst(Tail(returns), allocation,
                                             monthly_contribution, current, benchmark)

RECURSIVE SimulateLoop(_, _, _, _, _)
SimulateLoop(returns, allocation, monthly_contribution, current_value, benchmark_value) ==
    IF returns = <<>>
    THEN <<>>
    ELSE LET row == Head(returns)
             current == Grow(Contribute(current_value, row.date, monthly_contribution),
                             PortfolioDayReturn(allocation, row.ret))
             benchmark == Grow(Contribute(benchmark_value, row.date, monthly_contribution),
                               100 * row.ret[Benchmark])
         IN  <<SimulationPoint(row.date, current, benchmark)>>
                 \o SimulateLoop(Tail(returns), allocation, monthly_contribution,
                                 current, benchmark)

simulate_portfolio(allocation, initial_investment, monthly_contribution, history) ==
    SimulateLoop(ReturnRows(history, DOMAIN allocation \cup {Benchmark}),
                 allocation, monthly_contribution,
                 Cents(initial_investment), Cents(initial_investment))

(***************************************************************************)
(* PortfolioManager.backtest_portfolio                                     *)
(***************************************************************************)
RECURSIVE BacktestLoop(_, _, _, _)
BacktestLoop(returns, allocation, current_value, benchmark_value) ==
    IF returns = <<>>
    THEN <<>>
    ELSE LET row == Head(returns)
             current == Grow(current_value, PortfolioDayReturn(allocation, row.ret))
             benchmark == Grow(benchmark_value, 100 * row.ret[Benchmark])
         IN  <<SimulationPoint(row.date, current, benchmark)>>
                 \o BacktestLoop(Tail(returns), allocation, current, benchmark)

backtest_portfolio(allocation, initial_investment, history) ==
    BacktestLoop(ReturnRows(history, DOMAIN allocation \cup {Benchmark}),
                 allocation, Cents(initial_investment), Cents(initial_investment))

(***************************************************************************)
(* PortfolioManager.analyze_scenario                                       *)
(*                                                                         *)
(* The metrics are derived from the rounded portfolio values of the        *)
(* backtest.  annualized_return and volatility are a power and a root of   *)
(* the daily returns: the model carries them as expressions over the exact *)
(* mean and the daily returns, and for the Sharpe ratio its numerator, its *)
(* denominator and the class of the quotient numpy produces (the division  *)
(* never raises).                                                          *)
(***************************************************************************)
\* np.diff(portfolio_values) / portfolio_values[:-1]
DailyReturnsOf(portfolio_values) ==
    [i \in 1..(Len(portfolio_values) - 1) |->
        Norm([num |-> portfolio_values[i + 1] - portfolio_values[i],
              den |-> portfolio_values[i]])]

\* np.maximum.accumulate(portfolio_values)[i]
RunningPeak(portfolio_values, i) ==
    CHOOSE peak \in {portfolio_values[k] : k \in 1..i} :
        \A k \in 1..i : portfolio_values[k] <= peak

\* the decline below the running peak, in currency
DrawdownAbsolute(portfolio_values) ==
    [i \in 1..Len(portfolio_values) |->
        [num |-> RunningPeak(portfolio_values, i) - portfolio_values[i], den |-> 1]]

\* (np.maximum.accumulate(pv) - pv) / np.maximum.accumulate(pv)
Drawdown(portfolio_values) ==
    [i \in 1..Len(portfolio_values) |->
        Norm([num |-> RunningPeak(portfolio_values, i) - portfolio_values[i],
              den |-> RunningPeak(portfolio_values, i)])]

\* returns.std() = 0: every daily return is the same
ZeroDeviation(returns) ==
    \A i, j \in 1..Len(returns) : returns[i] = returns[j]

\* (returns.mean() * 252) / (returns.std() * np.sqrt(252))
SharpeOf(returns) ==
    IF returns = <<>> THEN [kind |-> "nan"]
    ELSE IF ZeroDeviation(returns)
         THEN (IF returns[1].num = 0 THEN [kind |-> "nan"] ELSE [kind |-> "inf"])
         ELSE [kind |-> "finite"]

\* returns.mean(): nan (0/0) for an empty array
MeanOf(returns) ==
    IF returns = <<>>
    THEN [num |-> 0, den |-> 0]
    ELSE LET total[i \in 0..Len(returns)] ==
                 IF i = 0 THEN [num |-> 0, den |-> 1] ELSE Plus(total[i - 1], returns[i])
         IN  Norm([num |-> total[Len(returns)].num,
                   den |-> total[Len(returns)].den * Len(returns)])

\* The two annualizations of a mean daily return are a product and a power;
\* each is carried as the expression it is, with the mean it is taken of.
\* For a mean above -1 the two have the same value only when the mean is 0
\* (Bernoulli: (1 + m) ** 252 > 1 + 252 * m for every other m).
TimesAnnualized(mean) == [form |-> "mean * 252", mean |-> mean]
PowerAnnualized(mean) == [form |-> "(1 + mean) ** 252 - 1", mean |-> mean]
SameAnnualized(a, b) ==
    /\ a.mean = b.mean
    /\ a.form = b.form \/ (a.mean.den # 0 /\ a.mean.num = 0)

\* returns.std() * np.sqrt(252)
VolatilityOf(returns) ==
    [form |-> "std * sqrt(252)", returns |-> returns]

analyze_scenario(allocation, initial_investment, history) ==
    LET backtest_results == backtest_portfolio(allocation, initial_investment, history)
        portfolio_values ==
            [i \in 1..Len(backtest_results) |-> backtest_results[i].portfolioValue]
        returns == DailyReturnsOf(portfolio_values)
    IN  IF portfolio_values = <<>>
        THEN Raised("IndexError", "portfolio_values[-1]")
        ELSE Ok([total_return |->
                     Norm([num |-> portfolio_values[Len(portfolio_values)]
                                       - initial_investment * 100,
                           den |-> initial_investment * 100]),
                 annualized_return |-> PowerAnnualized(MeanOf(returns)),
                 volatility |-> VolatilityOf(returns),
                 sharpe_ratio |-> [kind |-> SharpeOf(returns).kind,
                                   numerator |-> TimesAnnualized(MeanOf(returns)),
                                   denominator |-> VolatilityOf(returns)],
                 max_drawdown |-> [kind |-> "series",
                                   values |-> Drawdown(portfolio_values)],
                 backtest_results |-> backtest_results])

(***************************************************************************)
(* PortfolioManager._calculate_estimated_income and get_portfolio_stats    *)
(*                                                                         *)
(* info[symbol] is what ticker.info gives for the symbol: the access       *)
(* raises, the dict has no dividendYield (the default 0 is taken), it has  *)
(* a number, or it has None, on which the multiplication raises TypeError  *)
(* inside the try.  Weights are in percent, the income a fraction of the   *)
(* currency unit.                                                          *)
(***************************************************************************)
\* ticker.info.get('dividendYield', 0) and whether the try block completes
YieldLookup(lookup) ==
    CASE lookup.kind = "raises" -> [completes |-> FALSE, dividend_yield |-> 0]
      [] lookup.kind = "none" -> [completes |-> FALSE, dividend_yield |-> 0]
      [] lookup.kind = "absent" -> [completes |-> TRUE, dividend_yield |-> 0]
      [] lookup.kind = "yield" -> [completes |-> TRUE, dividend_yield |-> lookup.v]

\* (weight * investment_amount * dividend_yield) / 10000
IncomeOf(weight, investment_amount, dividend_yield) ==
    Norm([num |-> weight * investment_amount * dividend_yield, den |-> 100 * 10000])

\* a failed lookup ends the loop with what has been added so far
RECURSIVE IncomeLoopBreaking(_, _, _, _)
IncomeLoopBreaking(symbols, allocation, investment_amount, info) ==
    IF symbols = <<>>
    THEN [num |-> 0, den |-> 1]
    ELSE LET symbol == Head(symbols)
             got == YieldLookup(info[symbol])
         IN  IF got.completes
             THEN Plus(IncomeOf(allocation[symbol], investment_amount, got.dividend_yield),
                       IncomeLoopBreaking(Tail(symbols), allocation, investment_amount, info))
             ELSE [num |-> 0, den |-> 1]

\* for symbol, weight in allocation.items(): try ... except: continue
RECURSIVE IncomeLoop(_, _, _, _)
IncomeLoop(symbols, allocation, investment_amount, info) ==
    IF symbols = <<>>
    THEN [num |-> 0, den |-> 1]
    ELSE LET symbol == Head(symbols)
             got == YieldLookup(info[symbol])
             rest == IncomeLoop(Tail(symbols), allocation, investment_amount, info)
         IN  IF got.completes
             THEN Plus(IncomeOf(allocation[symbol], investment_amount, got.dividend_yield),
                       rest)
             ELSE rest

\* the keys of a dict in the order it yields them
RECURSIVE KeysOf(_)
KeysOf(keys) ==
    IF keys = {}
    THEN <<>>
    ELSE LET k == CHOOSE x \in keys : TRUE
         IN  <<k>> \o KeysOf(keys \ {k})

_calculate_estimated_income(allocation, investment_amount, info) ==
    IncomeLoop(KeysOf(DOMAIN allocation), allocation, investment_amount, info)

\* portfolio_returns.std() = 0 (pandas: the sample deviation, NaN below two rows)
StatsSharpeKind(returns) ==
    IF Len(returns) < 2 THEN "nan"
    ELSE IF ZeroDeviation(returns)
         THEN (IF returns[1].num = 0 THEN "nan" ELSE "inf")
         ELSE "finite"

\* (portfolio_returns + 1).cumprod().div(cumprod.cummax()) - 1
StatsDrawdown(basis_points) ==
    LET growth == [i \in 1..Len(basis_points) |->
                      Compounded([num |-> 1, den |-> 1], basis_points, 1, i)]
        peak(i) == CHOOSE g \in {growth[k] : k \in 1..i} :
                       \A k \in 1..i : LessEq(growth[k], g)
    IN  [i \in 1..Len(basis_points) |->
            Norm([num |-> growth[i].num * peak(i).den - peak(i).num * growth[i].den,
                  den |-> growth[i].den * peak(i).num])]

get_portfolio_stats(allocation, investment_amount, history, info) ==
    LET rows == ReturnRows(history, DOMAIN allocation)
        basis_points == [i \in 1..Len(rows) |-> PortfolioDayReturn(allocation, rows[i].ret)]
        portfolio_returns ==
            [i \in 1..Len(rows) |-> Norm([num |-> basis_points[i], den |-> 10000])]
        volatility == [form |-> "std * sqrt(252)", returns |-> portfolio_returns]
    IN  Ok([expected_annual_return |-> TimesAnnualized(MeanOf(portfolio_returns)),
            annual_volatility |-> volatility,
            sharpe_ratio |-> [kind |-> StatsSharpeKind(portfolio_returns),
                              numerator |-> TimesAnnualized(MeanOf(portfolio_returns)),
                              denominator |-> volatility],
            max_drawdown |-> [kind |-> "series", values |-> StatsDrawdown(basis_points)],
            investment_amount |-> investment_amount,
            estimated_annual_income |->
                _calculate_estimated_income(allocation, investment_amount, info)])

(***************************************************************************)
(* RiskAssessor.calculate_risk_score                                       *)
(*                                                                         *)
(* The weights are in percent and the running score in hundredths, so the  *)
(* sum is exact; round(score) is the nearest integer, a tie to the even    *)
(* one, the rule of round(value, 2) on cents.                              *)
(***************************************************************************)
question_weights ==
    [age |-> 15, income |-> 10, savings |-> 10, investment_horizon |-> 15,
     risk_attitude |-> 20, investment_knowledge |-> 15, loss_tolerance |-> 15]

age_score(age) ==
    IF age < 30 THEN 100
    ELSE IF age < 40 THEN 80
    ELSE IF age < 50 THEN 60
    ELSE IF age < 60 THEN 40
    ELSE 20

income_score(annual_income) ==
    IF annual_income > 200000 THEN 100
    ELSE IF annual_income > 100000 THEN 80
    ELSE IF annual_income > 50000 THEN 60
    ELSE 40

savings_score(savings) ==
    IF savings > 500000 THEN 100
    ELSE IF savings > 100000 THEN 80
    ELSE IF savings > 25000 THEN 60
    ELSE 40

horizon_score(horizon) ==
    IF horizon > 10 THEN 100
    ELSE IF horizon > 5 THEN 75
    ELSE IF horizon > 3 THEN 50
    ELSE 25

calculate_risk_score(answers) ==
    LET score ==
            age_score(Get(answers, "age", 0)) * question_weights["age"]
            + income_score(Get(answers, "income", 0)) * question_weights["income"]
            + savings_score(Get(answers, "savings", 0)) * question_weights["savings"]
            + horizon_score(Get(answers, "investment_horizon", 0))
                  * question_weights["investment_horizon"]
            + Get(answers, "risk_attitude", 3) * 20 * question_weights["risk_attitude"]
            + Get(answers, "investment_knowledge", 3) * 20
                  * question_weights["investment_knowledge"]
            + Get(answers, "loss_tolerance", 3) * 20 * question_weights["loss_tolerance"]
    IN  Round2([num |-> score, den |-> 100])

(***************************************************************************)
(* main.py: POST /api/risk-assessment                                      *)
(*                                                                         *)
(* The score (age / 100) * 0.2 + (risk_tolerance / 10) * 0.4 +             *)
(* (investment_horizon / 30) * 0.4 is age / 500 + risk_tolerance / 25 +    *)
(* investment_horizon / 75: the score and the weights are counted in       *)
(* 1500ths, so that 1500 is the number 1.  The risk summary is the entry   *)
(* of the table for the level, named here by its level.                    *)
(***************************************************************************)
ScoreOne == 1500

risk_score_of(data) ==
    3 * data.age + 60 * data.risk_tolerance + 20 * data.investment_horizon

risk_level_of(risk_score) ==
    IF 10 * risk_score < 3 * ScoreOne THEN "conservative"
    ELSE IF 10 * risk_score < 5 * ScoreOne THEN "moderate_conservative"
    ELSE IF 10 * risk_score < 7 * ScoreOne THEN "moderate"
    ELSE IF 10 * risk_score < 8 * ScoreOne THEN "moderate_aggressive"
    ELSE "aggressive"

recommended_allocation(risk_score) ==
    [stocks |-> MinOf(<<(8 * ScoreOne) \div 10, (3 * ScoreOne) \div 10 + risk_score>>),
     bonds |-> MaxOf(<<(2 * ScoreOne) \div 10, (7 * ScoreOne) \div 10 - risk_score>>),
     alternatives |-> ScoreOne \div 10]

process_risk_assessment(data) ==
    Ok([risk_level |-> risk_level_of(risk_score_of(data)),
        risk_score |-> risk_score_of(data),
        investment_goals |-> data.investment_goals,
        risk_summary |-> risk_level_of(risk_score_of(data)),
        recommended_allocation |-> recommended_allocation(risk_score_of(data))])

(***************************************************************************)
(* routers/portfolio.py: POST /portfolio/optimize                          *)
(***************************************************************************)
route_optimize_portfolio(allocation, stats) ==
    IF allocation.kind = "error"
    THEN [kind |-> "http", status |-> 400, detail |-> allocation.detail]
    ELSE IF stats = "raises"
    THEN [kind |-> "http", status |-> 400, detail |-> "stats"]
    ELSE [kind |-> "http", status |-> 200, allocation |-> allocation.value]

(***************************************************************************)
(* Inputs.                                                                 *)
(***************************************************************************)
RebalanceSymbols == {"VTI", "BND"}
Weights == 0..MaxWeight
Thresholds == {1, DefaultThreshold}

LotSymbols == {"VTI", "BND"}
PurchasePrices == {50, 100}
ShareCounts == {10, 20}
CurrentPrices == {0, 45, 50, 90}
Lots == [symbol : LotSymbols, price : PurchasePrices, shares : ShareCounts]

RiskLevelKeys == RiskTiers \cup {"risky"}

\* the solves a call can meet: those of its tier, or of no tier at all
SolvesFor(risk_level) ==
    IF risk_level \in DOMAIN risk_params
    THEN SolverOutcomes(initial_weights(risk_params[risk_level]))
    ELSE {[success |-> FALSE, x |-> Vertex(1)]}

(***************************************************************************)
(* The argument objects of a call are the caller's: a dict or a list is    *)
(* passed by reference, and a second call on the same objects sees what    *)
(* the first call left in them.                                            *)
(***************************************************************************)
\* the lots are popped off the list as they are scanned
ArgumentsDrained(operation, arguments) ==
    IF operation = "calculate_tax_loss_harvest"
    THEN [arguments EXCEPT !.transactions = <<>>]
    ELSE arguments

\* rebalance_portfolio reads its dicts with .items() and .get, the harvest
\* iterates over transactions and reads current_prices with .get,
\* analyze_scenario copies the keys with list(allocation.keys()) before it
\* appends "SPY": no call assigns to, or removes from, an argument
ArgumentsAfter(operation, arguments) == arguments

\* the same operation once more on the same argument objects
SecondCall(operation, arguments) ==
    CASE operation = "rebalance_portfolio" ->
            Ok(rebalance_portfolio(arguments.current_allocation,
                                   arguments.target_allocation, arguments.threshold))
      [] operation = "calculate_tax_loss_harvest" ->
            calculate_tax_loss_harvest(arguments.transactions, arguments.current_prices)
      [] operation = "analyze_scenario" ->
            analyze_scenario(arguments.allocation, arguments.initial_investment,
                             arguments.history)

\* the replay's inputs
ReplaySymbols == {"VTI", "BND", Benchmark}
Allocations == { [s \in {"VTI"} |-> 100], [s \in {"VTI", "BND"} |-> 50] }
InitialInvestments == {10}
MonthlyContributions == {0, 5}
TimeHorizons == {1, 2}
\* a day's returns in percent: the two funds and the benchmark rise and fall
\* together or against each other
DailyRows ==
    { [VTI |-> 10, BND |-> 10, SPY |-> -10], [VTI |-> 10, BND |-> -10, SPY |-> 10],
      [VTI |-> -10, BND |-> -10, SPY |-> 10], [VTI |-> -10, BND |-> 10, SPY |-> -10] }
WindowStarts == {1, 2, 4}
\* years of prices the provider holds; a longer period yields what it holds
HistoryYears == {1}
NoDataChoices == { {}, {"BND"} }
Histories ==
    UNION { [years : HistoryYears, nodata : NoDataChoices, first : WindowStarts,
             rows : [1..k -> DailyRows]] : k \in 0..MaxDays }

\* the questionnaire: any of the questions may be left out, and the answers
\* to the 1-5 questions reach calculate_risk_score as they were sent
QuestionKeys == DOMAIN question_weights
FullAnswers ==
    [age : {25, 45, 65}, income : {40000, 250000}, savings : {10000, 600000},
     investment_horizon : {2, 12}, risk_attitude : {1, 5, 10},
     investment_knowledge : {1, 5}, loss_tolerance : {1, 5}]
AnsweredKeys == { {}, QuestionKeys \ {"risk_attitude", "age"}, QuestionKeys }
Answers ==
    { [k \in answered |-> full[k]] : answered \in AnsweredKeys, full \in FullAnswers }

\* the inputs of get_portfolio_stats
InvestmentAmounts == {10000}
DividendYields == {2}
YieldLookups ==
    {[kind |-> "raises", v |-> 0], [kind |-> "none", v |-> 0], [kind |-> "absent", v |-> 0]}
        \cup {[kind |-> "yield", v |-> y] : y \in DividendYields}
StatsHistories == {h \in Histories : h.first = 1 /\ h.nodata = {}}

\* the body of a risk-assessment request (income is not read)
AssessmentRequests ==
    [age : {30, 60}, risk_tolerance : {1, 5, 10}, investment_horizon : {5, 30},
     investment_goals : {<<>>, <<"Retirement Planning">>}]

NoArgs == [none |-> TRUE]
NoResult == [kind |-> "none"]

(***************************************************************************)
(* The state machine: one call of one operation.                           *)
(***************************************************************************)
Init ==
    /\ asset_classes = InitialAssetClasses
    /\ pc = "idle"
    /\ op = "none"
    /\ args = NoArgs
    /\ locals = NoArgs
    /\ result = NoResult

CallRebalance ==
    /\ pc = "idle"
    /\ \E current \in Dicts(RebalanceSymbols, Weights),
          target \in Dicts(RebalanceSymbols, Weights),
          threshold \in Thresholds :
          /\ args' = ArgumentsAfter("rebalance_portfolio",
                                     [current_allocation |-> current,
                                      target_allocation |-> target,
                                      threshold |-> threshold])
          /\ result' = Ok(rebalance_portfolio(current, target, threshold))
    /\ op' = "rebalance_portfolio"
    /\ pc' = "done"
    /\ UNCHANGED <<asset_classes, locals>>

CallTaxLossHarvest ==
    /\ pc = "idle"
    /\ \E transactions \in Lists(Lots, MaxLots),
          current_prices \in Dicts(LotSymbols, CurrentPrices) :
          /\ args' = ArgumentsAfter("calculate_tax_loss_harvest",
                                     [transactions |-> transactions,
                                      current_prices |-> current_prices])
          /\ result' = calculate_tax_loss_harvest(transactions, current_prices)
    /\ op' = "calculate_tax_loss_harvest"
    /\ pc' = "done"
    /\ UNCHANGED <<asset_classes, locals>>

CallOptimize ==
    /\ pc = "idle"
    /\ \E risk_level \in RiskLevelKeys, data \in FetchedData :
          \E solve \in SolvesFor(risk_level) :
              /\ args' = [risk_level |-> risk_level, data |-> data, solve |-> solve]
              /\ result' = optimize_portfolio(asset_classes, risk_level, data, solve)
    /\ op' = "optimize_portfolio"
    /\ pc' = "done"
    /\ UNCHANGED <<asset_classes, locals>>

CallOptimizeRoute ==
    /\ pc = "idle"
    /\ \E risk_level \in RiskLevelKeys, data \in FetchedData, stats \in {"ok", "raises"} :
          \E solve \in SolvesFor(risk_level) :
              /\ args' = [risk_level |-> risk_level, data |-> data, solve |-> solve,
                          stats |-> stats]
              /\ result' = route_optimize_portfolio(
                               optimize_portfolio(asset_classes, risk_level, data, solve),
                               stats)
    /\ op' = "route_optimize_portfolio"
    /\ pc' = "done"
    /\ UNCHANGED <<asset_classes, locals>>

\* calculate_efficient_frontier up to the loop
CallFrontier ==
    /\ pc = "idle"
    /\ op' = "calculate_efficient_frontier"
    /\ \E n_points \in 0..MaxPoints, data \in FetchedData :
          /\ args' = [n_points |-> n_points, data |-> data, solves |-> <<>>]
          /\ IF data.fetch = "raises"
             THEN /\ result' = Raised("FetchError", "history")
                  /\ pc' = "done"
                  /\ locals' = locals
             ELSE /\ locals' = [target_returns |->
                                    linspace(MinOf(data.mean_returns),
                                             MaxOf(data.mean_returns), n_points),
                                next |-> 1,
                                efficient_portfolios |-> <<>>]
                  /\ pc' = "frontier_loop"
                  /\ result' = result
    /\ UNCHANGED asset_classes

\* a pass whose solve fails ends the loop: the later targets are given up
FrontierIterationBreaking ==
    /\ pc = "frontier_loop"
    /\ locals.next <= Len(locals.target_returns)
    /\ \E solve \in SweepOutcomes(args.data, locals.target_returns[locals.next]) :
          /\ args' = [args EXCEPT !.solves = Append(@, solve)]
          /\ locals' = [locals EXCEPT
                 !.next = IF solve.success THEN @ + 1 ELSE Len(locals.target_returns) + 1,
                 !.efficient_portfolios =
                     FrontierCollect(@, locals.target_returns[locals.next], solve)]
    /\ UNCHANGED <<asset_classes, pc, op, result>>

\* one pass of "for target_return in target_returns"
FrontierIteration ==
    /\ pc = "frontier_loop"
    /\ locals.next <= Len(locals.target_returns)
    /\ \E solve \in SweepOutcomes(args.data, locals.target_returns[locals.next]) :
          /\ args' = [args EXCEPT !.solves = Append(@, solve)]
          /\ locals' = [locals EXCEPT
                 !.next = @ + 1,
                 !.efficient_portfolios =
                     FrontierCollect(@, locals.target_returns[locals.next], solve)]
    /\ UNCHANGED <<asset_classes, pc, op, result>>

\* return efficient_portfolios
FrontierReturn ==
    /\ pc = "frontier_loop"
    /\ locals.next > Len(locals.target_returns)
    /\ result' = Ok(locals.efficient_portfolios)
    /\ pc' = "done"
    /\ UNCHANGED <<asset_classes, op, args, locals>>

CallSimulate ==
    /\ pc = "idle"
    /\ \E allocation \in Allocations, initial_investment \in InitialInvestments,
          monthly_contribution \in MonthlyContributions,
          time_horizon \in TimeHorizons, history \in Histories :
          /\ args' = [allocation |-> allocation,
                      initial_investment |-> initial_investment,
                      monthly_contribution |-> monthly_contribution,
                      time_horizon |-> time_horizon,
                      history |-> history]
          /\ result' = Ok(simulate_portfolio(allocation, initial_investment,
                                             monthly_contribution, history))
    /\ op' = "simulate_portfolio"
    /\ pc' = "done"
    /\ UNCHANGED <<asset_classes, locals>>

CallBacktest ==
    /\ pc = "idle"
    /\ \E allocation \in Allocations, initial_investment \in InitialInvestments,
          time_horizon \in TimeHorizons, history \in Histories :
          /\ args' = [allocation |-> allocation,
                      initial_investment |-> initial_investment,
                      time_horizon |-> time_horizon,
                      history |-> history]
          /\ result' = Ok(backtest_portfolio(allocation, initial_investment, history))
    /\ op' = "backtest_portfolio"
    /\ pc' = "done"
    /\ UNCHANGED <<asset_classes, locals>>

CallAnalyze ==
    /\ pc = "idle"
    /\ \E allocation \in Allocations, initial_investment \in InitialInvestments,
          time_horizon \in TimeHorizons, history \in Histories :
          /\ args' = ArgumentsAfter("analyze_scenario",
                                     [allocation |-> allocation,
                                      initial_investment |-> initial_investment,
                                      time_horizon |-> time_horizon,
                                      history |-> history])
          /\ result' = analyze_scenario(allocation, initial_investment, history)
    /\ op' = "analyze_scenario"
    /\ pc' = "done"
    /\ UNCHANGED <<asset_classes, locals>>

CallPortfolioStats ==
    /\ pc = "idle"
    /\ \E allocation \in Allocations, investment_amount \in InvestmentAmounts,
          history \in StatsHistories :
          \E info \in [DOMAIN allocation -> YieldLookups] :
              /\ args' = [allocation |-> allocation,
                          investment_amount |-> investment_amount,
                          history |-> history,
                          info |-> info]
              /\ result' = get_portfolio_stats(allocation, investment_amount, history, info)
    /\ op' = "get_portfolio_stats"
    /\ pc' = "done"
    /\ UNCHANGED <<asset_classes, locals>>

CallRiskAssessment ==
    /\ pc = "idle"
    /\ \E data \in AssessmentRequests :
          /\ args' = [data |-> data]
          /\ result' = process_risk_assessment(data)
    /\ op' = "process_risk_assessment"
    /\ pc' = "done"
    /\ UNCHANGED <<asset_classes, locals>>

CallRiskScore ==
    /\ pc = "idle"
    /\ \E answers \in Answers :
          /\ args' = [answers |-> answers]
          /\ result' = Ok(calculate_risk_score(answers))
    /\ op' = "calculate_risk_score"
    /\ pc' = "done"
    /\ UNCHANGED <<asset_classes, locals>>

\* the caller keeps the result and calls the operation again, with the
\* same argument objects, on the same manager
RepeatCall ==
    /\ pc = "done"
    /\ op \in {"rebalance_portfolio", "calculate_tax_loss_harvest", "analyze_scenario"}
    /\ locals' = [first_result |-> result]
    /\ result' = SecondCall(op, args)
    /\ args' = ArgumentsAfter(op, args)
    /\ pc' = "repeated"
    /\ UNCHANGED <<asset_classes, op>>

Next ==
    \/ CallRebalance
    \/ CallTaxLossHarvest
    \/ CallOptimize
    \/ CallOptimizeRoute
    \/ CallFrontier
    \/ FrontierIteration
    \/ FrontierReturn
    \/ CallSimulate
    \/ CallBacktest
    \/ CallAnalyze
    \/ RepeatCall
    \/ CallRiskScore
    \/ CallRiskAssessment
    \/ CallPortfolioStats

Spec == Init /\ [][Next]_vars

\* The sweep on its own, with a caller that lets it run: a pass of the loop
\* that can be taken is taken, and so is the return.  Each solve is one step:
\* minimize is called without options (lines 136-142), so SLSQP stops at its
\* own iteration limit and hands back a result, converged or not.
FrontierNext ==
    \/ CallFrontier
    \/ FrontierIteration
    \/ FrontierReturn

FrontierSpec ==
    /\ Init
    /\ [][FrontierNext]_vars
    /\ WF_vars(FrontierIteration)
    /\ WF_vars(FrontierReturn)

(***************************************************************************)
(* Properties.                                                             *)
(***************************************************************************)
RebalanceDone == pc = "done" /\ op = "rebalance_portfolio"
HarvestDone == pc = "done" /\ op = "calculate_tax_loss_harvest"
OptimizeDone == pc = "done" /\ op = "optimize_portfolio"
FrontierDone == pc = "done" /\ op = "calculate_efficient_frontier"

\* the drift of symbol s of the target
Drift(s) == args.target_allocation[s] - Get(args.current_allocation, s, 0)

\* C1: rebalance_portfolio returns an entry for a symbol s of the target if and
\* only if the drift |target[s] - current.get(s, 0)| is strictly above the
\* threshold (a drift equal to the threshold is omitted), and the entry is the
\* signed drift: positive to buy, negative to sell.
C1_TradesAreTheMaterialDrifts ==
    RebalanceDone =>
        /\ result.kind = "ok"
        /\ DOMAIN result.value \subseteq DOMAIN args.target_allocation
        /\ \A s \in DOMAIN args.target_allocation :
               /\ s \in DOMAIN result.value
                    <=> (Drift(s) > args.threshold \/ Drift(s) < -args.threshold)
               /\ s \in DOMAIN result.value => result.value[s] = Drift(s)

\* a call where one symbol drifts by exactly the threshold and is left out,
\* while another is sold
C1_Witness ==
    /\ RebalanceDone
    /\ \E s, t \in DOMAIN args.target_allocation :
           /\ Abs(Drift(s)) = args.threshold
           /\ s \notin DOMAIN result.value
           /\ t \in DOMAIN result.value
           /\ result.value[t] < 0

\* C2: a symbol held in the current allocation and absent from the target is
\* given the target 0: when its weight is above the threshold the trades hold
\* a sale of its whole weight.
C2_AbsentTargetIsSold ==
    RebalanceDone =>
        \A s \in DOMAIN args.current_allocation \ DOMAIN args.target_allocation :
            args.current_allocation[s] > args.threshold =>
                /\ s \in DOMAIN result.value
                /\ result.value[s] = -args.current_allocation[s]

\* the lots the scan is to report: a known price strictly below the purchase
\* price and a loss of more than 1000
ClaimedLot(transaction, current_prices) ==
    /\ transaction.symbol \in DOMAIN current_prices
    /\ current_prices[transaction.symbol] < transaction.price
    /\ Abs((current_prices[transaction.symbol] - transaction.price) * transaction.shares)
           > 1000

ClaimedOpportunity(transaction, current_prices) ==
    [symbol |-> transaction.symbol,
     shares |-> transaction.shares,
     potential_loss |->
         (current_prices[transaction.symbol] - transaction.price) * transaction.shares]

RECURSIVE ClaimedHarvest(_, _)
ClaimedHarvest(transactions, current_prices) ==
    IF transactions = <<>>
    THEN <<>>
    ELSE (IF ClaimedLot(Head(transactions), current_prices)
          THEN <<ClaimedOpportunity(Head(transactions), current_prices)>>
          ELSE <<>>) \o ClaimedHarvest(Tail(transactions), current_prices)

\* C3: calculate_tax_loss_harvest returns, in the order of the lots, one
\* opportunity (symbol, shares, potential_loss = (current - purchase) * shares)
\* for each lot whose symbol has a known current price strictly below the
\* purchase price and whose loss is larger than 1000, and nothing else.
C3_HarvestIsTheMaterialLosses ==
    HarvestDone =>
        /\ result.kind = "ok"
        /\ result.value = ClaimedHarvest(args.transactions, args.current_prices)

\* the lots and prices of test_calculate_tax_loss_harvest
TestLots ==
    << [symbol |-> "VTI", price |-> 100, shares |-> 10],
       [symbol |-> "BND", price |-> 50, shares |-> 20] >>
TestPrices == [s \in {"VTI", "BND"} |-> IF s = "VTI" THEN 90 ELSE 45]

\* C4: for the lots (VTI, 100, 10 shares), (BND, 50, 20 shares) and the prices
\* VTI 90, BND 45 the scan returns two opportunities, in that order, each with
\* potential_loss = -100.
C4_TestLotsAreReported ==
    (HarvestDone /\ args.transactions = TestLots /\ args.current_prices = TestPrices) =>
        /\ result.kind = "ok"
        /\ Len(result.value) = 2
        /\ result.value[1].symbol = "VTI" /\ result.value[1].potential_loss = -100
        /\ result.value[2].symbol = "BND" /\ result.value[2].potential_loss = -100

\* the lots whose symbol has a price
Priced(transactions, current_prices) ==
    SelectSeq(transactions, LAMBDA t : t.symbol \in DOMAIN current_prices)

\* C5: a lot whose symbol has no entry in current_prices is skipped without an
\* error, and the call returns what it returns for the list without that lot.
C5_MissingPriceIsSkipped ==
    HarvestDone =>
        /\ result.kind = "ok"
        /\ result = calculate_tax_loss_harvest(
                        Priced(args.transactions, args.current_prices),
                        args.current_prices)
        /\ \A k \in 1..Len(result.value) :
               result.value[k].symbol \in DOMAIN args.current_prices

\* a lot without a price comes first and a later lot is reported
C5_Witness ==
    /\ HarvestDone
    /\ Len(args.transactions) >= 2
    /\ args.transactions[1].symbol \notin DOMAIN args.current_prices
    /\ result.kind = "ok"
    /\ Len(result.value) >= 1

\* the entries of a returned allocation that are numbers
WeightKeys(allocation) == {key \in DOMAIN allocation : allocation[key].kind = "weight"}

RECURSIVE SumOver(_, _)
SumOver(allocation, keys) ==
    IF keys = {}
    THEN 0
    ELSE LET key == CHOOSE k \in keys : TRUE
         IN  allocation[key].w + SumOver(allocation, keys \ {key})

\* C6: for each of the five tiers the values of the mapping optimize_portfolio
\* returns are weights in [0,1] that sum to 1, whatever the solver's outcome.
C6_ReturnedValuesAreAnAllocation ==
    (OptimizeDone /\ result.kind = "ok") =>
        /\ \A key \in DOMAIN result.value :
               /\ result.value[key].kind = "weight"
               /\ result.value[key].w >= 0
               /\ result.value[key].w <= One
        /\ SumOver(result.value, WeightKeys(result.value)) = One

\* C7: a solve that did not converge is signalled as OptimizationDidNotConverge,
\* and no call returns the weights of such a solve when they do not sum to 1 or
\* hold a negative weight.
C7_NonConvergenceIsSignalled ==
    (OptimizeDone /\ args.data.fetch = "ok" /\ args.risk_level \in RiskTiers
        /\ ~args.solve.success) =>
        /\ result.kind = "error"
        /\ result.error = "OptimizationDidNotConverge"
        /\ ~(result.kind = "ok" /\ ~Feasible(args.solve.x))

\* C8: the VTI weight optimize_portfolio returns is within 1% (relative) of
\* 0.6 times the tier's stock share: 0.18 for conservative, 0.48 for aggressive.
C8_VTIIsTheTemplateWeight ==
    (OptimizeDone /\ result.kind = "ok") =>
        LET template == risk_params[args.risk_level].stocks * 60
        IN  Abs(result.value["VTI"].w - template) * 100 <= template

\* C9: a risk level outside the five tiers fails with the error
\* InvalidRiskLevel, which no other failure shares, and returns no allocation.
C9_UnknownTierIsInvalidRiskLevel ==
    (OptimizeDone /\ args.data.fetch = "ok" /\ args.risk_level \notin RiskTiers) =>
        /\ result.kind = "error"
        /\ result.error = "InvalidRiskLevel"

\* the solves of a sweep that reported success, and the place among them of
\* the k-th
Solved == {k \in 1..Len(args.solves) : args.solves[k].success}
Rank(k) == Cardinality({j \in Solved : j <= k})

\* C10: calculate_efficient_frontier(n) returns, in ascending order of
\* expected_return, the points of exactly those of the n linearly spaced
\* targets (from the least to the largest mean return) whose solve reported
\* success: a failed solve adds no point, so there are at most n points.
C10_FrontierIsTheSolvedTargets ==
    (FrontierDone /\ result.kind = "ok") =>
        LET n == args.n_points
            lo == MinOf(args.data.mean_returns)
            hi == MaxOf(args.data.mean_returns)
            points == result.value
        IN  /\ Len(args.solves) = n
            /\ Len(points) = Cardinality(Solved)
            /\ Len(points) <= n
            /\ \A k \in Solved :
                   LET er == points[Rank(k)].expected_return
                   IN  \* er = lo + (k - 1) * (hi - lo) / (n - 1)
                       IF n = 1
                       THEN er.num = lo * er.den
                       ELSE er.num * (n - 1) = (lo * (n - 1) + (k - 1) * (hi - lo)) * er.den
            /\ \A j, k \in 1..Len(points) :
                   j < k => LessEq(points[j].expected_return, points[k].expected_return)

\* C11: for a universe with distinct asset returns the volatility of the
\* points calculate_efficient_frontier returns does not decrease along the
\* returned order (ascending target return).
C11_VolatilityNeverDecreases ==
    (FrontierDone /\ result.kind = "ok"
        /\ \A i, j \in 1..6 : i # j => args.data.mean_returns[i] # args.data.mean_returns[j]) =>
        \A j, k \in 1..Len(result.value) :
            j < k => LessEq(result.value[j].volatility, result.value[k].volatility)

\* a sweep of three distinct targets of which one failed and two succeeded
C10_Witness ==
    /\ FrontierDone
    /\ result.kind = "ok"
    /\ args.n_points = 3
    /\ MinOf(args.data.mean_returns) < MaxOf(args.data.mean_returns)
    /\ ~args.solves[2].success
    /\ Len(result.value) = 2

SimulateDone == pc = "done" /\ op = "simulate_portfolio"
BacktestDone == pc = "done" /\ op = "backtest_portfolio"
AnalyzeDone == pc = "done" /\ op = "analyze_scenario"

\* the replayed rows that fall on the first day of a month
FirstOfMonthRows ==
    {i \in 1..Len(result.value) : result.value[i].date.d = 1}

\* C12: simulate_portfolio with monthly_contribution 0 returns exactly the
\* series backtest_portfolio returns for the same allocation, initial
\* investment and history.
C12_NoContributionIsTheBacktest ==
    (SimulateDone /\ args.monthly_contribution = 0) =>
        result.value = backtest_portfolio(args.allocation, args.initial_investment,
                                          args.history)

C12_Witness ==
    /\ SimulateDone
    /\ args.monthly_contribution = 0
    /\ Len(result.value) = MaxDays
    /\ FirstOfMonthRows # {}
    /\ \E i \in 1..Len(result.value) :
           result.value[i].portfolioValue # result.value[i].benchmarkValue

\* C13: with a monthly contribution above 0 the portfolio value simulate_portfolio
\* reports for a date is never below the one backtest_portfolio reports for
\* that date.
C13_ContributionNeverLowersTheValue ==
    (SimulateDone /\ args.monthly_contribution > 0) =>
        LET backtest == backtest_portfolio(args.allocation, args.initial_investment,
                                           args.history)
        IN  /\ Len(backtest) = Len(result.value)
            /\ \A i \in 1..Len(backtest) :
                   /\ backtest[i].date = result.value[i].date
                   /\ result.value[i].portfolioValue >= backtest[i].portfolioValue

C13_Witness ==
    /\ SimulateDone
    /\ args.monthly_contribution > 0
    /\ FirstOfMonthRows # {}
    /\ LET backtest == backtest_portfolio(args.allocation, args.initial_investment,
                                          args.history)
       IN  \E i \in 1..Len(backtest) :
               result.value[i].portfolioValue > backtest[i].portfolioValue

ReplayDone == SimulateDone \/ BacktestDone \/ AnalyzeDone

\* the symbols a replay asks the provider for
RequestedSymbols == DOMAIN args.allocation \cup {Benchmark}

\* C14: simulate_portfolio, backtest_portfolio and analyze_scenario fail with
\* InsufficientHistory, all three alike, when the requested horizon is longer
\* than the price history there is, or when no aligned return row exists.
C14_ShortHistoryIsInsufficientHistory ==
    (ReplayDone /\ (\/ args.time_horizon > args.history.years
                    \/ ReturnRows(args.history, RequestedSymbols) = <<>>)) =>
        /\ result.kind = "error"
        /\ result.error = "InsufficientHistory"

\* C15: when a requested symbol has no data, the replay leaves that symbol
\* out and still covers every return row the other symbols have.
C15_RowsSurviveAMissingSymbol ==
    ((SimulateDone \/ BacktestDone) /\ RequestedSymbols \cap args.history.nodata # {}) =>
        /\ result.kind = "ok"
        /\ Len(result.value) = Len(args.history.rows)

\* the values analyze_scenario derives its metrics from
AnalysedValues ==
    LET backtest == backtest_portfolio(args.allocation, args.initial_investment,
                                       args.history)
    IN  [i \in 1..Len(backtest) |-> backtest[i].portfolioValue]

\* C16: analyze_scenario fails with UndefinedSharpeRatio when the standard
\* deviation of the daily returns is zero; it reports no NaN and no infinity.
C16_ZeroDeviationIsUndefinedSharpeRatio ==
    (AnalyzeDone /\ Len(AnalysedValues) >= 2
                 /\ ZeroDeviation(DailyReturnsOf(AnalysedValues))) =>
        /\ result.kind = "error"
        /\ result.error = "UndefinedSharpeRatio"

\* the largest of a series of fractions
LargestOf(fractions) ==
    CHOOSE f \in {fractions[i] : i \in 1..Len(fractions)} :
        \A i \in 1..Len(fractions) : LessEq(fractions[i], f)

\* C17: the max_drawdown analyze_scenario returns is one number, not below 0:
\* the largest of (running peak - value) / running peak over the analysed
\* values.
C17_MaxDrawdownIsTheLargestDecline ==
    (AnalyzeDone /\ result.kind = "ok") =>
        /\ result.value.max_drawdown.kind = "scalar"
        /\ result.value.max_drawdown =
               [kind |-> "scalar", value |-> LargestOf(Drawdown(AnalysedValues))]
        /\ LargestOf(Drawdown(AnalysedValues)).num >= 0

\* a series of values, each multiplied by c
Rescaled(values, c) == [i \in 1..Len(values) |-> c * values[i]]

Scales == 2..MaxScale

\* C18: multiplying the analysed value series by a positive constant leaves
\* the drawdown analyze_scenario reports unchanged.
C18_DrawdownIgnoresTheScale ==
    (AnalyzeDone /\ result.kind = "ok") =>
        \A c \in Scales :
            Drawdown(Rescaled(AnalysedValues, c)) = result.value.max_drawdown.values

C18_Witness ==
    /\ AnalyzeDone
    /\ result.kind = "ok"
    /\ Len(AnalysedValues) = MaxDays
    /\ \E i \in 1..Len(AnalysedValues) :
           result.value.max_drawdown.values[i].num > 0

Repeated == pc = "repeated"

Threads == {1, 2}

\* every call runs in the one frame
FrameShared(t) == 1

\* the frame of a call: Python creates one per call, local to its thread
Frame(t) == t

EmptyFrame ==
    [target_returns |-> <<>>, next |-> 1, efficient_portfolios |-> <<>>,
     solve |-> [success |-> FALSE, x |-> Vertex(1)]]

ConcRiskLevels == {"moderate", "risky"}
ConcPointCounts == {0, 2}
ConcData ==
    {d \in FetchedData : d.fetch = "raises" \/ d.volatilities = <<15, 18, 5, 6, 17, 20>>}
ConcSolves(risk_level) ==
    {s \in SolvesFor(risk_level) :
        s.x = Vertex(1) \/ (risk_level \in DOMAIN risk_params
                              /\ s.x = initial_weights(risk_params[risk_level]))}

ConcInit ==
    /\ asset_classes = InitialAssetClasses
    /\ pc = [t \in Threads |-> "idle"]
    /\ op = [t \in Threads |-> "none"]
    /\ args = [t \in Threads |-> NoArgs]
    /\ locals = [t \in Threads |-> EmptyFrame]
    /\ result = [t \in Threads |-> NoResult]

\* optimize_portfolio up to and including the solve
ThreadOptimize(t) ==
    /\ pc[t] = "idle"
    /\ op' = [op EXCEPT ![t] = "optimize_portfolio"]
    /\ \E risk_level \in ConcRiskLevels, data \in ConcData :
          \E solve \in ConcSolves(risk_level) :
              /\ args' = [args EXCEPT ![t] = [risk_level |-> risk_level, data |-> data,
                                              solve |-> solve]]
              /\ IF data.fetch = "raises" \/ risk_level \notin DOMAIN risk_params
                 THEN /\ result' = [result EXCEPT ![t] =
                             optimize_portfolio(asset_classes, risk_level, data, solve)]
                      /\ pc' = [pc EXCEPT ![t] = "done"]
                      /\ locals' = locals
                 ELSE /\ locals' = [locals EXCEPT ![Frame(t)] =
                                        [EmptyFrame EXCEPT !.solve = solve]]
                      /\ pc' = [pc EXCEPT ![t] = "optimize_build"]
                      /\ result' = result
    /\ UNCHANGED asset_classes

\* allocation = dict(zip(self.asset_classes.keys(), result.x)) and the metrics
ThreadOptimizeBuild(t) ==
    /\ pc[t] = "optimize_build"
    /\ result' = [result EXCEPT ![t] =
           optimize_portfolio(asset_classes, args[t].risk_level, args[t].data,
                              locals[Frame(t)].solve)]
    /\ pc' = [pc EXCEPT ![t] = "done"]
    /\ UNCHANGED <<asset_classes, op, args, locals>>

\* calculate_efficient_frontier up to the loop
ThreadFrontier(t) ==
    /\ pc[t] = "idle"
    /\ op' = [op EXCEPT ![t] = "calculate_efficient_frontier"]
    /\ \E n_points \in ConcPointCounts, data \in ConcData :
          /\ args' = [args EXCEPT ![t] = [n_points |-> n_points, data |-> data,
                                          solves |-> <<>>]]
          /\ IF data.fetch = "raises"
             THEN /\ result' = [result EXCEPT ![t] = Raised("FetchError", "history")]
                  /\ pc' = [pc EXCEPT ![t] = "done"]
                  /\ locals' = locals
             ELSE /\ locals' = [locals EXCEPT ![Frame(t)] =
                                    [EmptyFrame EXCEPT
                                        !.target_returns =
                                            linspace(MinOf(data.mean_returns),
                                                     MaxOf(data.mean_returns), n_points)]]
                  /\ pc' = [pc EXCEPT ![t] = "frontier_loop"]
                  /\ result' = result
    /\ UNCHANGED asset_classes

\* one pass of "for target_return in target_returns"
ThreadFrontierIteration(t) ==
    /\ pc[t] = "frontier_loop"
    /\ locals[Frame(t)].next <= Len(locals[Frame(t)].target_returns)
    /\ LET frame == locals[Frame(t)]
           target_return == frame.target_returns[frame.next]
       IN  \E solve \in SweepOutcomes(args[t].data, target_return) :
               /\ args' = [args EXCEPT ![t].solves = Append(@, solve)]
               /\ locals' = [locals EXCEPT ![Frame(t)] =
                      [frame EXCEPT
                          !.next = @ + 1,
                          !.efficient_portfolios =
                              FrontierCollect(@, target_return, solve)]]
    /\ UNCHANGED <<asset_classes, pc, op, result>>

\* return efficient_portfolios
ThreadFrontierReturn(t) ==
    /\ pc[t] = "frontier_loop"
    /\ locals[Frame(t)].next > Len(locals[Frame(t)].target_returns)
    /\ result' = [result EXCEPT ![t] = Ok(locals[Frame(t)].efficient_portfolios)]
    /\ pc' = [pc EXCEPT ![t] = "done"]
    /\ UNCHANGED <<asset_classes, op, args, locals>>

ConcNext ==
    \E t \in Threads :
        \/ ThreadOptimize(t)
        \/ ThreadOptimizeBuild(t)
        \/ ThreadFrontier(t)
        \/ ThreadFrontierIteration(t)
        \/ ThreadFrontierReturn(t)

ConcSpec == ConcInit /\ [][ConcNext]_vars

\* what the sweep collects when it runs alone: the targets in order, each
\* with the solve the call met for it
RECURSIVE SweepAlone(_, _, _)
SweepAlone(target_returns, solves, k) ==
    IF k = 0
    THEN <<>>
    ELSE FrontierCollect(SweepAlone(target_returns, solves, k - 1),
                         target_returns[k], solves[k])

\* the result of the call when no other call runs beside it
ResultAlone(operation, arguments) ==
    IF operation = "optimize_portfolio"
    THEN optimize_portfolio(InitialAssetClasses, arguments.risk_level, arguments.data,
                            arguments.solve)
    ELSE IF arguments.data.fetch = "raises"
         THEN Raised("FetchError", "history")
         ELSE LET target_returns == linspace(MinOf(arguments.data.mean_returns),
                                             MaxOf(arguments.data.mean_returns),
                                             arguments.n_points)
              IN  IF Len(arguments.solves) # Len(target_returns)
                  THEN [kind |-> "other"]
                  ELSE Ok(SweepAlone(target_returns, arguments.solves,
                                     Len(target_returns)))

\* C20: calls that overlap on the one shared PortfolioManager do not
\* interfere: each returns what it returns when it runs alone, from its own
\* arguments, its own fetched data and the asset-class table, and the table
\* is never modified.
C20_ConcurrentCallsDoNotInterfere ==
    /\ asset_classes = InitialAssetClasses
    /\ \A t \in Threads :
           pc[t] = "done" => result[t] = ResultAlone(op[t], args[t])

C20_Witness ==
    /\ pc[1] = "done"
    /\ op[1] = "calculate_efficient_frontier"
    /\ result[1].kind = "ok"
    /\ Len(result[1].value) = 2
    /\ pc[2] = "done"
    /\ op[2] = "optimize_portfolio"
    /\ result[2].kind = "ok"
    /\ args[1].data # args[2].data

RECURSIVE ContributionsCompounded(_, _, _, _)
ContributionsCompounded(amount, basis_points, days, i) ==
    IF days = {}
    THEN [num |-> 0, den |-> 1]
    ELSE LET j == CHOOSE d \in days : TRUE
         IN  Plus(Compounded(amount, basis_points, j, i),
                  ContributionsCompounded(amount, basis_points, days \ {j}, i))

\* the rows simulate_portfolio replays, and the daily returns of the
\* portfolio and of the benchmark on them, in basis points
ReplayedRows == ReturnRows(args.history, RequestedSymbols)
PortfolioBasisPoints ==
    [i \in 1..Len(ReplayedRows) |-> PortfolioDayReturn(args.allocation, ReplayedRows[i].ret)]
BenchmarkBasisPoints ==
    [i \in 1..Len(ReplayedRows) |-> 100 * ReplayedRows[i].ret[Benchmark]]

\* the value after row i when a contribution goes in, before the day's
\* return, on exactly the rows dated the first of a month
ValueWithContributions(basis_points, i) ==
    Plus(Compounded(Cents(args.initial_investment), basis_points, 1, i),
         ContributionsCompounded(Cents(args.monthly_contribution), basis_points,
                                 {j \in 1..i : ReplayedRows[j].date.d = 1}, i))

\* C21: in simulate_portfolio the monthly contribution is added to the
\* portfolio value and to the benchmark value on each replay date that is the
\* first of a month, before that day's return is applied, and on no other date.
C21_ContributionGoesInBeforeTheReturn ==
    SimulateDone =>
        /\ Len(result.value) = Len(ReplayedRows)
        /\ \A i \in 1..Len(ReplayedRows) :
               /\ result.value[i].portfolioValue =
                      Round2(ValueWithContributions(PortfolioBasisPoints, i))
               /\ result.value[i].benchmarkValue =
                      Round2(ValueWithContributions(BenchmarkBasisPoints, i))

C21_Witness ==
    /\ SimulateDone
    /\ args.monthly_contribution > 0
    /\ Len(result.value) = MaxDays
    /\ \E i, j \in 1..Len(result.value) :
           /\ ReplayedRows[i].date.d = 1
           /\ PortfolioBasisPoints[i] # 0
           /\ BenchmarkBasisPoints[i] # PortfolioBasisPoints[i]
           /\ ReplayedRows[j].date.d # 1

\* the return rows on which every requested symbol has data
AlignedRows ==
    {i \in 1..Len(args.history.rows) : RequestedSymbols \cap args.history.nodata = {}}

\* the k-th smallest member of a set of row numbers
RECURSIVE KthOf(_, _)
KthOf(rows, k) ==
    LET least == CHOOSE r \in rows : \A q \in rows : r <= q
    IN  IF k = 1 THEN least ELSE KthOf(rows \ {least}, k - 1)

Before(a, b) == a.m < b.m \/ (a.m = b.m /\ a.d < b.d)

\* what goes in on the first of a month: nothing in a backtest
ReplayContribution ==
    IF op = "simulate_portfolio" THEN args.monthly_contribution ELSE 0

\* the running value after row i, not rounded
ExactValue(basis_points, i) ==
    Plus(Compounded(Cents(args.initial_investment), basis_points, 1, i),
         ContributionsCompounded(Cents(ReplayContribution), basis_points,
                                 {j \in 1..i : ReplayedRows[j].date.d = 1}, i))

\* a whole number of cents no more than half a cent from the amount
NearestCent(cents, amount) ==
    2 * Abs(cents * amount.den - amount.num) <= amount.den

C23_SharpeIsAnnualizedReturnOverVolatility ==
    (AnalyzeDone /\ result.kind = "ok" /\ result.value.sharpe_ratio.kind = "finite") =>
        /\ SameAnnualized(result.value.sharpe_ratio.numerator,
                          result.value.annualized_return)
        /\ result.value.sharpe_ratio.denominator = result.value.volatility

\* C24: calculate_efficient_frontier(n) terminates, having attempted each of
\* the n targets exactly once: a solve that does not converge is abandoned
\* and the sweep goes on to the next target.
C24_SweepAttemptsEveryTargetAndEnds ==
    /\ [](pc = "frontier_loop" =>
              /\ Len(args.solves) = locals.next - 1
              /\ locals.next <= args.n_points + 1)
    /\ []((FrontierDone /\ result.kind = "ok") => Len(args.solves) = args.n_points)
    /\ (pc = "frontier_loop") ~> FrontierDone

C24_Witness ==
    /\ FrontierDone
    /\ result.kind = "ok"
    /\ args.n_points = MaxPoints
    /\ ~args.solves[1].success
    /\ args.solves[MaxPoints].success

RiskScoreDone == pc = "done" /\ op = "calculate_risk_score"

\* C25: calculate_risk_score returns an integer from 0 to 100 for every
\* answers dictionary.
C25_ScoreIsBetween0And100 ==
    RiskScoreDone => result.value \in 0..100

StatsDone == pc = "done" /\ op = "get_portfolio_stats"

\* the symbols for which a dividend yield was obtained and used
YieldObtained ==
    {s \in DOMAIN args.allocation : args.info[s].kind \in {"absent", "yield"}}

RECURSIVE IncomeOver(_)
IncomeOver(symbols) ==
    IF symbols = {}
    THEN [num |-> 0, den |-> 1]
    ELSE LET s == CHOOSE x \in symbols : TRUE
         IN  Plus(IncomeOf(args.allocation[s], args.investment_amount,
                           IF args.info[s].kind = "yield" THEN args.info[s].v ELSE 0),
                  IncomeOver(symbols \ {s}))

\* C26: a dividend-yield lookup that fails inside _calculate_estimated_income
\* drops that symbol alone and silently: get_portfolio_stats returns without
\* an error and without any sign of the failure, and the estimate is the sum
\* of weight * investment_amount * yield / 10000 over the symbols whose
\* lookup succeeded.
C26_FailedYieldLookupIsDropped ==
    StatsDone =>
        /\ result.kind = "ok"
        /\ DOMAIN result.value =
               {"expected_annual_return", "annual_volatility", "sharpe_ratio",
                "max_drawdown", "investment_amount", "estimated_annual_income"}
        /\ result.value.estimated_annual_income = IncomeOver(YieldObtained)

C26_Witness ==
    /\ StatsDone
    /\ \E s, t \in DOMAIN args.allocation :
           /\ args.info[s].kind = "raises"
           /\ args.info[t].kind = "yield"
           /\ result.value.estimated_annual_income.num > 0

\* C27: for each of the five tiers the six initial weights optimize_portfolio
\* builds lie in [0, 1] and sum to 1: the guess that seeds the solve is a
\* long-only, fully invested allocation.
C27_InitialWeightsAreAnAllocation ==
    (OptimizeDone /\ args.data.fetch = "ok" /\ args.risk_level \in RiskTiers) =>
        /\ Len(initial_weights(risk_params[args.risk_level])) = 6
        /\ Feasible(initial_weights(risk_params[args.risk_level]))

C27_Witness ==
    /\ OptimizeDone
    /\ args.data.fetch = "ok"
    /\ args.risk_level = "aggressive"
    /\ args.solve.x = initial_weights(risk_params[args.risk_level])
    /\ result.kind = "ok"

\* current_prices without the symbols whose price is 0
WithoutZeroPrices(current_prices) ==
    [s \in {k \in DOMAIN current_prices : current_prices[k] # 0} |-> current_prices[s]]

\* C28: calculate_tax_loss_harvest treats a current price of 0 like a missing
\* price: a lot whose symbol has the price 0 is never reported, whatever its
\* loss, and the call returns what it returns without the prices of 0.
C28_ZeroPriceIsAMissingPrice ==
    HarvestDone =>
        /\ result = calculate_tax_loss_harvest(args.transactions,
                                               WithoutZeroPrices(args.current_prices))
        /\ \A k \in 1..Len(result.value) :
               args.current_prices[result.value[k].symbol] # 0

\* a lot bought for more than 1000 in all has the price 0, another lot is reported
C28_Witness ==
    /\ HarvestDone
    /\ \E k \in 1..Len(args.transactions) :
           /\ args.transactions[k].symbol \in DOMAIN args.current_prices
           /\ args.current_prices[args.transactions[k].symbol] = 0
           /\ args.transactions[k].price * args.transactions[k].shares > MinimumLoss
    /\ Len(result.value) >= 1

\* the same window of dates with a return of 0 for every symbol on every row
Flat(history) ==
    [history EXCEPT !.rows = [i \in 1..Len(history.rows) |->
                                 [s \in ReplaySymbols |-> 0]]]

\* what simulate_portfolio reports at the end of the flat window: the money
\* put in, and nothing else
FlatEnd ==
    LET flat == simulate_portfolio(args.allocation, args.initial_investment,
                                   args.monthly_contribution, Flat(args.history))
    IN  flat[Len(flat)]

\* C29: simulate_portfolio adds as many contributions as there are replay
\* dates whose day of the month is 1; a month whose 1st is not a replay date
\* (not a trading day, or the first price row, which has no return) gets no
\* contribution on any later day.
C29_OneContributionPerFirstOfMonthRow ==
    (SimulateDone /\ Len(result.value) >= 1) =>
        /\ FlatEnd.portfolioValue =
               100 * (args.initial_investment
                          + args.monthly_contribution * Cardinality(FirstOfMonthRows))
        /\ FlatEnd.benchmarkValue = FlatEnd.portfolioValue
        /\ FirstOfMonthRows = {} =>
               result.value = backtest_portfolio(args.allocation, args.initial_investment,
                                                 args.history)

\* the first price row is the 1st of a month, the window runs into the next
\* month, whose 1st is not a trading day, and no contribution is added
C29_Witness ==
    /\ SimulateDone
    /\ args.monthly_contribution > 0
    /\ TradingCalendar[args.history.first].d = 1
    /\ FirstOfMonthRows = {}
    /\ \E j, k \in 1..Len(result.value) :
           result.value[j].date.m < result.value[k].date.m

AssessmentDone == pc = "done" /\ op = "process_risk_assessment"

\* C30: the recommended_allocation process_risk_assessment returns is fully
\* invested: stocks, bonds and alternatives each lie in [0, 1] and sum to 1.
C30_RecommendedAllocationSumsTo1 ==
    AssessmentDone =>
        LET allocation == result.value.recommended_allocation
        IN  /\ \A class \in DOMAIN allocation :
                   allocation[class] >= 0 /\ allocation[class] <= ScoreOne
            /\ allocation.stocks + allocation.bonds + allocation.alternatives = ScoreOne

====
